---- MODULE Spec2Model ----
(***************************************************************************)
(* A model of agentsystems-verify: canonical hashing (hash.ts), ticket     *)
(* validation and archive scan (verify.ts), the ledger client (arweave.ts) *)
(* and the reconciliation in verify().                                     *)
(*                                                                         *)
(* Strings whose characters the code looks at (dates, archive paths) are   *)
(* sequences of one-character strings; JSON texts are sequences of         *)
(* lexical tokens.                                                         *)
(***************************************************************************)
EXTENDS Integers, Sequences, FiniteSets, TLC

VARIABLES
    pc,            \* position of the run of the specification at hand
    \* ---- hashContent (hash.ts)
    docA, docB,    \* two JSON documents (member order kept)
    styleB,        \* how docB is written out as text
    digestA, digestB,
    \* ---- validateTicket (verify.ts)
    json, validated,
    \* ---- generateDateRange (arweave.ts)
    startDate, endDate, current, dates,
    \* ---- processZipAndHash (verify.ts)
    zipFiles, dateStart, dateEnd, scanned,
    \* ---- verify / queryArweaveTransactions / getCurrentBlockHeight
    ticket, archive, localHashes, queryDates,
    cursor, page, results, requests, responses,
    currentHeight, arweaveTxs, result, error

hashVars   == <<docA, docB, styleB, digestA, digestB>>
ticketVars == <<json, validated>>
rangeVars  == <<startDate, endDate, current, dates>>
zipVars    == <<zipFiles, dateStart, dateEnd, scanned>>
verifyVars == <<ticket, archive, localHashes, queryDates, cursor, page, results,
                requests, responses, currentHeight, arweaveTxs, result, error>>
vars == <<pc, hashVars, ticketVars, rangeVars, zipVars, verifyVars>>

(***************************************************************************)
(* Characters and JavaScript string comparison (by UTF-16 code unit).      *)
(***************************************************************************)
Digits == {"0", "1", "2", "3", "4", "5", "6", "7", "8", "9"}

Code == ("-" :> 45) @@ ("." :> 46) @@ ("/" :> 47)
     @@ ("0" :> 48) @@ ("1" :> 49) @@ ("2" :> 50) @@ ("3" :> 51) @@ ("4" :> 52)
     @@ ("5" :> 53) @@ ("6" :> 54) @@ ("7" :> 55) @@ ("8" :> 56) @@ ("9" :> 57)
     @@ ("B" :> 66) @@ ("T" :> 84) @@ ("Z" :> 90)
     @@ ("a" :> 97) @@ ("b" :> 98) @@ ("c" :> 99) @@ ("f" :> 102) @@ ("g" :> 103)
     @@ ("j" :> 106) @@ ("k" :> 107) @@ ("l" :> 108) @@ ("n" :> 110)
     @@ ("o" :> 111) @@ ("r" :> 114) @@ ("s" :> 115) @@ ("v" :> 118)
     @@ ("x" :> 120) @@ ("y" :> 121)

RECURSIVE StrLess(_, _)
\* a < b for two JavaScript strings
StrLess(a, b) ==
    IF b = <<>> THEN FALSE
    ELSE IF a = <<>> THEN TRUE
    ELSE IF Code[Head(a)] # Code[Head(b)] THEN Code[Head(a)] < Code[Head(b)]
    ELSE StrLess(Tail(a), Tail(b))

StrLeq(a, b) == a = b \/ StrLess(a, b)

(***************************************************************************)
(* hash.ts: hashContent = SHA-256 of canonicalize(JSON.parse(content)).    *)
(*                                                                         *)
(* A JSON text is a sequence of tokens: the punctuators, whitespace,       *)
(* string literals and number literals. A parsed value is                  *)
(*   [t |-> "lit", lit |-> token]                                          *)
(*   [t |-> "arr", items |-> <<value, ...>>]                               *)
(*   [t |-> "obj", members |-> <<[key |-> token, val |-> value], ...>>]    *)
(* with the members in the order JSON.parse created the properties.        *)
(***************************************************************************)
WhiteSpace == {" ", "\n"}

\* The string literals of the texts, with the characters each denotes.
StrUnits == ("\"a\"" :> <<"a">>) @@ ("\"b\"" :> <<"b">>) @@ ("\"B\"" :> <<"B">>)
         @@ ("\"ab\"" :> <<"a", "b">>) @@ ("\"k\"" :> <<"k">>) @@ ("\"v\"" :> <<"v">>)

StringTokens == DOMAIN StrUnits

\* The number literals, with the text JSON.stringify gives the number each denotes.
NumberText == ("1" :> "1") @@ ("1.0" :> "1") @@ ("2" :> "2") @@ ("3" :> "3")

NumberTokens == DOMAIN NumberText

ParseFail == [ok |-> FALSE, val |-> [t |-> "none"], next |-> 0]

RECURSIVE SkipWs(_, _)
SkipWs(toks, i) ==
    IF i <= Len(toks) /\ toks[i] \in WhiteSpace THEN SkipWs(toks, i + 1) ELSE i

\* CreateDataProperty on an ordinary object: a new key is appended, a key
\* already present keeps its place and takes the new value.
DefineMember(members, key, val) ==
    IF \E i \in 1..Len(members) : members[i].key = key
    THEN [i \in 1..Len(members) |->
            IF members[i].key = key THEN [key |-> key, val |-> val] ELSE members[i]]
    ELSE Append(members, [key |-> key, val |-> val])

RECURSIVE ParseValue(_, _), ParseMembers(_, _, _), ParseItems(_, _, _)

\* One JSON value starting at or after token i.
ParseValue(toks, i0) ==
    LET i == SkipWs(toks, i0) IN
    IF i > Len(toks) THEN ParseFail
    ELSE IF toks[i] \in StringTokens
         THEN [ok |-> TRUE, val |-> [t |-> "lit", lit |-> toks[i]], next |-> i + 1]
    ELSE IF toks[i] \in NumberTokens
         THEN [ok |-> TRUE, val |-> [t |-> "lit", lit |-> NumberText[toks[i]]],
               next |-> i + 1]
    ELSE IF toks[i] = "{"
         THEN LET j == SkipWs(toks, i + 1) IN
              IF j <= Len(toks) /\ toks[j] = "}"
              THEN [ok |-> TRUE, val |-> [t |-> "obj", members |-> <<>>], next |-> j + 1]
              ELSE ParseMembers(toks, j, <<>>)
    ELSE IF toks[i] = "["
         THEN LET j == SkipWs(toks, i + 1) IN
              IF j <= Len(toks) /\ toks[j] = "]"
              THEN [ok |-> TRUE, val |-> [t |-> "arr", items |-> <<>>], next |-> j + 1]
              ELSE ParseItems(toks, j, <<>>)
    ELSE ParseFail

\* The members of an object from token i on: key : value, then , or }.
ParseMembers(toks, i0, members) ==
    LET i == SkipWs(toks, i0) IN
    IF i > Len(toks) \/ toks[i] \notin StringTokens THEN ParseFail
    ELSE LET c == SkipWs(toks, i + 1) IN
         IF c > Len(toks) \/ toks[c] # ":" THEN ParseFail
         ELSE LET r == ParseValue(toks, c + 1) IN
              IF ~r.ok THEN ParseFail
              ELSE LET k  == SkipWs(toks, r.next)
                       ms == DefineMember(members, toks[i], r.val) IN
                   IF k > Len(toks) THEN ParseFail
                   ELSE IF toks[k] = "," THEN ParseMembers(toks, k + 1, ms)
                   ELSE IF toks[k] = "}"
                        THEN [ok |-> TRUE, val |-> [t |-> "obj", members |-> ms],
                              next |-> k + 1]
                   ELSE ParseFail

\* The items of an array from token i on: value, then , or ].
ParseItems(toks, i0, items) ==
    LET r == ParseValue(toks, i0) IN
    IF ~r.ok THEN ParseFail
    ELSE LET k == SkipWs(toks, r.next) IN
         IF k > Len(toks) THEN ParseFail
         ELSE IF toks[k] = "," THEN ParseItems(toks, k + 1, Append(items, r.val))
         ELSE IF toks[k] = "]"
              THEN [ok |-> TRUE, val |-> [t |-> "arr", items |-> Append(items, r.val)],
                    next |-> k + 1]
         ELSE ParseFail

\* JSON.parse(content): one value, then only whitespace.
JsonParse(toks) ==
    LET r == ParseValue(toks, 1) IN
    IF r.ok /\ SkipWs(toks, r.next) = Len(toks) + 1
    THEN [ok |-> TRUE, val |-> r.val]
    ELSE [ok |-> FALSE, val |-> [t |-> "none"]]

RECURSIVE InsertSorted(_, _)
InsertSorted(keys, k) ==
    IF keys = <<>> THEN <<k>>
    ELSE IF StrLess(StrUnits[k], StrUnits[Head(keys)]) THEN <<k>> \o keys
    ELSE <<Head(keys)>> \o InsertSorted(Tail(keys), k)

RECURSIVE SortKeys(_)
\* Object.keys(object).sort(): ascending by UTF-16 code unit
SortKeys(keys) ==
    IF keys = <<>> THEN <<>> ELSE InsertSorted(SortKeys(Tail(keys)), Head(keys))

\* KeyOrder with a defect: the keys left in property order.
KeyOrderUnsorted(members) == [i \in 1..Len(members) |-> members[i].key]

\* The order in which canonicalize writes an object's members.
KeyOrder(members) == SortKeys([i \in 1..Len(members) |-> members[i].key])

RECURSIVE Canonicalize(_), CanonMembers(_, _, _), CanonItems(_, _)

\* canonicalize(parsed): RFC 8785 text, here as its token sequence.
Canonicalize(val) ==
    IF val.t = "lit" THEN <<val.lit>>
    ELSE IF val.t = "arr" THEN <<"[">> \o CanonItems(val.items, 1) \o <<"]">>
    ELSE <<"{">> \o CanonMembers(val.members, KeyOrder(val.members), 1) \o <<"}">>

CanonMembers(members, keys, i) ==
    IF i > Len(keys) THEN <<>>
    ELSE LET m == members[CHOOSE j \in 1..Len(members) : members[j].key = keys[i]] IN
         (IF i = 1 THEN <<>> ELSE <<",">>)
         \o <<keys[i], ":">> \o Canonicalize(m.val)
         \o CanonMembers(members, keys, i + 1)

CanonItems(items, i) ==
    IF i > Len(items) THEN <<>>
    ELSE (IF i = 1 THEN <<>> ELSE <<",">>)
         \o Canonicalize(items[i]) \o CanonItems(items, i + 1)

\* createHash("sha256").update(canonical).digest("hex"): the digest stands for
\* the text it was computed from (no two texts of the model collide).
Sha256Hex(canonical) == <<"sha256">> \o canonical

\* hashContent(content): [ok, digest]; ~ok is the thrown SyntaxError.
hashContent(content) ==
    LET parsed == JsonParse(content) IN
    IF ~parsed.ok THEN [ok |-> FALSE, digest |-> <<>>]
    ELSE [ok |-> TRUE, digest |-> Sha256Hex(Canonicalize(parsed.val))]

(***************************************************************************)
(* JavaScript values where the code tests their type or truthiness:        *)
(* undefined, null, a number, a string (its characters).                   *)
(***************************************************************************)
Undefined == [t |-> "undefined", s |-> <<>>, n |-> 0]
Null      == [t |-> "null", s |-> <<>>, n |-> 0]
Num(n)    == [t |-> "number", s |-> <<>>, n |-> n]
Str(s)    == [t |-> "string", s |-> s, n |-> 0]

\* ToBoolean
Truthy(v) == (v.t = "string" /\ v.s # <<>>) \/ (v.t = "number" /\ v.n # 0)

IsString(v) == v.t = "string"

(***************************************************************************)
(* verify.ts: validateTicket                                               *)
(***************************************************************************)
ARWEAVE == <<"a", "r", "w", "e", "a", "v", "e">>

\* /^\d{4}-\d{2}-\d{2}$/.test(s)
dateRegex(s) ==
    /\ Len(s) = 10
    /\ \A i \in {1, 2, 3, 4, 6, 7, 9, 10} : s[i] \in Digits
    /\ s[5] = "-" /\ s[8] = "-"

NoTicket == [type |-> <<>>, owner |-> <<>>, namespace |-> <<>>,
             date_start |-> <<>>, date_end |-> <<>>]

Throw(msg) == [ok |-> FALSE, error |-> msg, ticket |-> NoTicket]

\* dateOrderBad with a defect: an empty range is refused too.
dateOrderBadStrict(date_start, date_end) == ~StrLess(date_start, date_end)

\* json.date_start > json.date_end
dateOrderBad(date_start, date_end) == StrLess(date_end, date_start)

validateTicket(j) ==
    IF j.type # Str(ARWEAVE)
    THEN Throw("Invalid ticket: type must be 'arweave'")
    ELSE IF ~Truthy(j.owner) \/ ~IsString(j.owner)
    THEN Throw("Invalid ticket: missing or invalid 'owner' address")
    ELSE IF ~Truthy(j.namespace) \/ ~IsString(j.namespace)
    THEN Throw("Invalid ticket: missing or invalid 'namespace'")
    ELSE IF ~Truthy(j.date_start) \/ ~IsString(j.date_start)
    THEN Throw("Invalid ticket: missing or invalid 'date_start'")
    ELSE IF ~Truthy(j.date_end) \/ ~IsString(j.date_end)
    THEN Throw("Invalid ticket: missing or invalid 'date_end'")
    ELSE IF ~dateRegex(j.date_start.s)
    THEN Throw("Invalid ticket: date_start must be YYYY-MM-DD format")
    ELSE IF ~dateRegex(j.date_end.s)
    THEN Throw("Invalid ticket: date_end must be YYYY-MM-DD format")
    ELSE IF dateOrderBad(j.date_start.s, j.date_end.s)
    THEN Throw("Invalid ticket: date_start must be before date_end")
    ELSE [ok |-> TRUE, error |-> "",
          ticket |-> [type |-> ARWEAVE, owner |-> j.owner.s,
                      namespace |-> j.namespace.s,
                      date_start |-> j.date_start.s, date_end |-> j.date_end.s]]

(***************************************************************************)
(* arweave.ts: generateDateRange, on the JavaScript Date.                  *)
(*                                                                         *)
(* Every Date of the function is a midnight UTC, so a time value is kept   *)
(* as its day number (ms / 86400000, day 0 = 1970-01-01); NaN is the       *)
(* invalid Date.                                                           *)
(***************************************************************************)
NaN == [nan |-> TRUE, day |-> 0]
Time(d) == [nan |-> FALSE, day |-> d]

DigitVal == ("0" :> 0) @@ ("1" :> 1) @@ ("2" :> 2) @@ ("3" :> 3) @@ ("4" :> 4)
         @@ ("5" :> 5) @@ ("6" :> 6) @@ ("7" :> 7) @@ ("8" :> 8) @@ ("9" :> 9)

DigitChar == <<"0", "1", "2", "3", "4", "5", "6", "7", "8", "9">>

RECURSIVE ToNat(_)
\* the number a digit string denotes
ToNat(ds) ==
    IF ds = <<>> THEN 0 ELSE 10 * ToNat(SubSeq(ds, 1, Len(ds) - 1)) + DigitVal[ds[Len(ds)]]

\* MakeDay(year, month, date) for month in 1..12: the day number of the first
\* of the month, plus date - 1 (a date past the month's end runs on).
MakeDay(year, month, date) ==
    LET y   == IF month <= 2 THEN year - 1 ELSE year
        era == y \div 400
        yoe == y - era * 400
        mp  == IF month > 2 THEN month - 3 ELSE month + 9
        doy == (153 * mp + 2) \div 5
        doe == yoe * 365 + yoe \div 4 - yoe \div 100 + doy
    IN  era * 146097 + doe - 719468 + (date - 1)

\* YearFromTime, MonthFromTime (1..12) and DateFromTime of a day number
CivilFromDay(day) ==
    LET z   == day + 719468
        era == z \div 146097
        doe == z - era * 146097
        yoe == (doe - doe \div 1460 + doe \div 36524 - doe \div 146096) \div 365
        doy == doe - (365 * yoe + yoe \div 4 - yoe \div 100)
        mp  == (5 * doy + 2) \div 153
        d   == doy - (153 * mp + 2) \div 5 + 1
        m   == IF mp < 10 THEN mp + 3 ELSE mp - 9
    IN  [year |-> yoe + era * 400 + (IF m <= 2 THEN 1 ELSE 0), month |-> m, date |-> d]

\* new Date(s + "T00:00:00Z"): the date-time form YYYY-MM-DDT00:00:00Z with a
\* month in 01..12 and a day in 01..31 (V8 lets a day past the month's end
\* run on into the next month); anything else is the invalid Date.
DateParse(s) ==
    IF ~dateRegex(s) THEN NaN
    ELSE LET year  == ToNat(SubSeq(s, 1, 4))
             month == ToNat(SubSeq(s, 6, 7))
             date  == ToNat(SubSeq(s, 9, 10))
         IN  IF month \notin 1..12 \/ date \notin 1..31 THEN NaN
             ELSE Time(MakeDay(year, month, date))

Pad2(n) == <<DigitChar[((n \div 10) % 10) + 1], DigitChar[(n % 10) + 1]>>
Pad4(n) == Pad2(n \div 100) \o Pad2(n % 100)

\* current.toISOString().split("T")[0], for the years 0000..9999
IsoDate(time) ==
    LET c == CivilFromDay(time.day) IN
    Pad4(c.year) \o <<"-">> \o Pad2(c.month) \o <<"-">> \o Pad2(c.date)

\* current.setUTCDate(current.getUTCDate() + 1)
NextUTCDate(time) ==
    LET c == CivilFromDay(time.day) IN Time(MakeDay(c.year, c.month, c.date + 1))

\* LoopContinues with a defect: the end date is left out.
LoopContinuesExclusive(cur, end) == ~cur.nan /\ ~end.nan /\ cur.day < end.day

\* while (current <= end): false when either Date is invalid
LoopContinues(cur, end) == ~cur.nan /\ ~end.nan /\ cur.day <= end.day

RECURSIVE DateRangeLoop(_, _, _)
DateRangeLoop(cur, end, out) ==
    IF LoopContinues(cur, end)
    THEN DateRangeLoop(NextUTCDate(cur), end, Append(out, IsoDate(cur)))
    ELSE out

generateDateRange(start, end) == DateRangeLoop(DateParse(start), DateParse(end), <<>>)

(***************************************************************************)
(* verify.ts: processZipAndHash.                                           *)
(*                                                                         *)
(* zip.files is a sequence of entries [path, dir, content] in the order of *)
(* Object.keys(zip.files), the paths distinct. JSZip names every directory *)
(* entry with a trailing "/".                                              *)
(***************************************************************************)
RECURSIVE LastSlash(_, _)
\* the index of the last "/" of p[1..i], 0 when there is none
LastSlash(p, i) == IF i = 0 \/ p[i] = "/" THEN i ELSE LastSlash(p, i - 1)

\* datePattern = /(\d{4})\/(\d{2})\/(\d{2})\/[^/]+\.json$/ : p.match(datePattern),
\* as [found, year, month, day]
datePattern(p) ==
    LET n == Len(p)
        s == LastSlash(p, n)
        NoMatch == [found |-> FALSE, year |-> <<>>, month |-> <<>>, day |-> <<>>]
    IN  IF /\ s >= 11
           /\ n - s >= 6
           /\ SubSeq(p, n - 4, n) = <<".", "j", "s", "o", "n">>
           /\ p[s - 3] = "/" /\ p[s - 6] = "/"
           /\ \A i \in {s - 10, s - 9, s - 8, s - 7, s - 5, s - 4, s - 2, s - 1} :
                 p[i] \in Digits
        THEN [found |-> TRUE, year |-> SubSeq(p, s - 10, s - 7),
              month |-> SubSeq(p, s - 5, s - 4), day |-> SubSeq(p, s - 2, s - 1)]
        ELSE NoMatch

\* `${match[1]}-${match[2]}-${match[3]}`
datePath(p) ==
    LET m == datePattern(p) IN m.year \o <<"-">> \o m.month \o <<"-">> \o m.day

\* InWindow with a defect: the first day of the window is left out.
InWindowAfterStart(d, from, to) == StrLess(from, d) /\ StrLeq(d, to)

\* datePath >= dateStart && datePath <= dateEnd
InWindow(d, from, to) == StrLeq(from, d) /\ StrLeq(d, to)

RECURSIVE HashAll(_, _)
\* the hashing loop: the hashes of the entries in order; the first content that
\* is no JSON text throws
HashAll(files, out) ==
    IF files = <<>> THEN [ok |-> TRUE, error |-> "", hashes |-> out]
    ELSE LET h == hashContent(Head(files).content) IN
         IF ~h.ok THEN [ok |-> FALSE, error |-> "SyntaxError", hashes |-> <<>>]
         ELSE HashAll(Tail(files), Append(out, h.digest))

processZipAndHash(files, from, to) ==
    LET Matches(f) == datePattern(f.path).found
        matching   == SelectSeq(files, Matches)
        Process(f) == ~f.dir /\ InWindow(datePath(f.path), from, to)
        filesToProcess == SelectSeq(matching, Process)
    IN  IF Len(matching) = 0
        THEN [ok |-> FALSE, error |-> "No log files found in ZIP", hashes |-> <<>>]
        ELSE IF Len(filesToProcess) = 0
        THEN [ok |-> FALSE, error |-> "No log files found within date range",
              hashes |-> <<>>]
        ELSE HashAll(filesToProcess, <<>>)

(***************************************************************************)
(* arweave.ts: queryArweaveTransactions and getCurrentBlockHeight.         *)
(*                                                                         *)
(* An edge of a page is [cursor, node |-> [id, height, tags]], height      *)
(* being node.block?.height (undefined without a block). A retrieved       *)
(* record keeps the fields verify() reads: txId, hash, blockHeight and     *)
(* confirmations. A response of the GraphQL endpoint is                    *)
(*   [ok, hasErrors, messages, edges, hasNext]                             *)
(* ok = response.ok, hasErrors = data.errors is there, edges and hasNext   *)
(* the page ([] and false when data is absent).                            *)
(***************************************************************************)
\* Object.fromEntries(node.tags.map(...))[name] || "": the value of the last tag
\* of that name, "" when there is none
TagOr(tags, name) ==
    LET at == {i \in 1..Len(tags) : tags[i].name = name} IN
    IF at = {} THEN <<>>
    ELSE tags[CHOOSE i \in at : \A j \in at : j <= i].value

\* results.push({...}) for one edge
Decode(edge) ==
    [txId |-> edge.node.id,
     hash |-> TagOr(edge.node.tags, "Hash"),
     blockHeight |-> IF Truthy(edge.node.height) THEN edge.node.height ELSE Null,
     confirmations |-> 0]

DecodeAll(edges) == [i \in 1..Len(edges) |-> Decode(edges[i])]

\* afterClause: <<>> when no cursor is sent, <<c>> for `, after: "c"`
AfterClause(cur) == IF Truthy(cur) THEN <<cur.s>> ELSE <<>>

\* ResponseThrows with a defect: data.errors is not looked at.
ResponseThrowsHttpOnly(resp) == ~resp.ok

\* the two throws of a loop pass: !response.ok, data.errors
ResponseThrows(resp) == ~resp.ok \/ resp.hasErrors

\* The Error thrown for a response
ResponseError(resp) ==
    IF ~resp.ok THEN <<"Arweave query failed", "statusText">>
    ELSE <<"Arweave GraphQL error",
           IF Len(resp.messages) > 0 THEN resp.messages[1] ELSE "undefined">>

\* LoopBreaks with a defect: hasNextPage is not looked at.
LoopBreaksOnEmptyOnly(hasNext, edges) == Len(edges) = 0

\* if (!hasNext || edges.length === 0) break
LoopBreaks(hasNext, edges) == ~hasNext \/ Len(edges) = 0

(***************************************************************************)
(* verify.ts: verify(), after the pages are in.                            *)
(***************************************************************************)
\* tx.blockHeight ? currentHeight - tx.blockHeight : 0
Confirmations(blockHeight, height) ==
    IF Truthy(blockHeight) THEN height - blockHeight.n ELSE 0

BackFill(txs, height) ==
    [i \in 1..Len(txs) |->
        [txs[i] EXCEPT !.confirmations = Confirmations(txs[i].blockHeight, height)]]

\* arweaveMap after the loop of set(): each hash with the last record set for it
ArweaveMap(txs) ==
    [h \in {txs[i].hash : i \in 1..Len(txs)} |->
        txs[CHOOSE i \in 1..Len(txs) :
               txs[i].hash = h /\ \A j \in 1..Len(txs) : txs[j].hash = h => j <= i]]

RECURSIVE Dedup(_, _)
Dedup(hs, seen) ==
    IF hs = <<>> THEN <<>>
    ELSE IF Head(hs) \in seen THEN Dedup(Tail(hs), seen)
    ELSE <<Head(hs)>> \o Dedup(Tail(hs), seen \cup {Head(hs)})

\* Classified with a defect: each distinct local hash is classified once.
ClassifiedDistinct(hashes) == Dedup(hashes, {})

\* for (const hash of localHashes): the hashes the first loop classifies
Classified(hashes) == hashes

\* IsMissing with a defect: the set of local hashes is asked for the record's id.
IsMissingById(tx, localHashSet) == tx.txId \notin localHashSet

\* !localHashSet.has(tx.hash)
IsMissing(tx, localHashSet) == tx.hash \notin localHashSet

RECURSIVE ClassifyLoop(_, _, _, _)
ClassifyLoop(hashes, map, verified, unnotarized) ==
    IF hashes = <<>> THEN [verified |-> verified, unnotarized |-> unnotarized]
    ELSE IF Head(hashes) \in DOMAIN map
    THEN ClassifyLoop(Tail(hashes), map, Append(verified, map[Head(hashes)]), unnotarized)
    ELSE ClassifyLoop(Tail(hashes), map, verified, Append(unnotarized, Head(hashes)))

\* the two loops of verify() and its return value
Reconcile(hashes, txs) ==
    LET localHashSet == {hashes[i] : i \in 1..Len(hashes)}
        local == ClassifyLoop(Classified(hashes), ArweaveMap(txs), <<>>, <<>>)
        Missing(tx) == IsMissing(tx, localHashSet)
    IN  [verified |-> local.verified, unnotarized |-> local.unnotarized,
         missing |-> SelectSeq(txs, Missing)]

(***************************************************************************)
(* The variables a specification does not use stay at <<>>.                *)
(***************************************************************************)
HashIdle   == docA = <<>> /\ docB = <<>> /\ styleB = <<>> /\ digestA = <<>>
              /\ digestB = <<>>
TicketIdle == json = <<>> /\ validated = <<>>
RangeIdle  == startDate = <<>> /\ endDate = <<>> /\ current = <<>> /\ dates = <<>>
ZipIdle    == zipFiles = <<>> /\ dateStart = <<>> /\ dateEnd = <<>> /\ scanned = <<>>
VerifyIdle == ticket = <<>> /\ archive = <<>> /\ localHashes = <<>>
              /\ queryDates = <<>> /\ cursor = <<>> /\ page = <<>> /\ results = <<>>
              /\ requests = <<>> /\ responses = <<>> /\ currentHeight = <<>>
              /\ arweaveTxs = <<>> /\ result = <<>> /\ error = <<>>

(***************************************************************************)
(* SpecHash: hashContent on texts that differ in member order, whitespace. *)
(* A document is a syntax tree of a text: like a parsed value, with the    *)
(* literals as written and the members in the order written.               *)
(***************************************************************************)
Lit(tok) == [t |-> "lit", lit |-> tok]
Obj(ms)  == [t |-> "obj", members |-> ms]
Arr(xs)  == [t |-> "arr", items |-> xs]
Mem(k, v) == [key |-> k, val |-> v]

DocPool ==
    { Obj(<<Mem("\"a\"", Lit("1")), Mem("\"b\"", Lit("2"))>>),
      Obj(<<Mem("\"k\"", Lit("\"v\""))>>),
      Obj(<<Mem("\"ab\"", Lit("1")), Mem("\"a\"", Lit("2")), Mem("\"B\"", Lit("3"))>>),
      Obj(<<Mem("\"b\"", Obj(<<Mem("\"k\"", Lit("\"v\"")), Mem("\"a\"", Lit("1.0"))>>)),
            Mem("\"a\"", Arr(<<Lit("2"), Lit("1")>>))>>),
      Obj(<<Mem("\"k\"", Obj(<<Mem("\"b\"", Lit("2")), Mem("\"a\"", Lit("1"))>>)),
            Mem("\"a\"", Lit("\"v\"")),
            Mem("\"B\"", Arr(<<Lit("1"), Obj(<<Mem("\"b\"", Lit("1"))>>)>>))>>) }

\* Insignificant whitespace of a style: none, a space, a line break and a space.
Styles == {0, 1, 2}
Pad(style) == IF style = 0 THEN <<>> ELSE IF style = 1 THEN <<" ">> ELSE <<"\n", " ">>

RECURSIVE Render(_, _), RenderMembers(_, _, _), RenderItems(_, _, _)

\* The text of a document in a style.
Render(doc, style) ==
    IF doc.t = "lit" THEN <<doc.lit>>
    ELSE IF doc.t = "arr"
         THEN <<"[">> \o Pad(style) \o RenderItems(doc.items, style, 1) \o <<"]">>
    ELSE <<"{">> \o Pad(style) \o RenderMembers(doc.members, style, 1) \o <<"}">>

RenderMembers(members, style, i) ==
    IF i > Len(members) THEN <<>>
    ELSE (IF i = 1 THEN <<>> ELSE <<",">> \o Pad(style))
         \o <<members[i].key>> \o Pad(style) \o <<":">> \o Pad(style)
         \o Render(members[i].val, style) \o Pad(style)
         \o RenderMembers(members, style, i + 1)

RenderItems(items, style, i) ==
    IF i > Len(items) THEN <<>>
    ELSE (IF i = 1 THEN <<>> ELSE <<",">> \o Pad(style))
         \o Render(items[i], style) \o Pad(style)
         \o RenderItems(items, style, i + 1)

SwapAt(s, i) ==
    [j \in 1..Len(s) |-> IF j = i THEN s[i + 1] ELSE IF j = i + 1 THEN s[i] ELSE s[j]]

HashInit ==
    /\ pc = "edit"
    /\ docA \in DocPool
    /\ docB = docA
    /\ styleB = 0
    /\ digestA = <<>> /\ digestB = <<>>
    /\ TicketIdle /\ RangeIdle /\ ZipIdle /\ VerifyIdle

\* Two neighbouring members of the document change places.
SwapMembers ==
    /\ pc = "edit"
    /\ \E i \in 1..(Len(docB.members) - 1) :
          docB' = Obj(SwapAt(docB.members, i))
    /\ UNCHANGED <<pc, docA, styleB, digestA, digestB>>
    /\ UNCHANGED <<ticketVars, rangeVars, zipVars, verifyVars>>

\* Two neighbouring members of an object inside the document change places.
SwapNestedMembers ==
    /\ pc = "edit"
    /\ \E k \in 1..Len(docB.members) :
          /\ docB.members[k].val.t = "obj"
          /\ \E i \in 1..(Len(docB.members[k].val.members) - 1) :
                docB' = Obj([docB.members EXCEPT ![k] =
                          Mem(docB.members[k].key,
                              Obj(SwapAt(docB.members[k].val.members, i)))])
    /\ UNCHANGED <<pc, docA, styleB, digestA, digestB>>
    /\ UNCHANGED <<ticketVars, rangeVars, zipVars, verifyVars>>

\* The second text is written with other whitespace.
Restyle ==
    /\ pc = "edit"
    /\ \E s \in Styles \ {styleB} : styleB' = s
    /\ UNCHANGED <<pc, docA, docB, digestA, digestB>>
    /\ UNCHANGED <<ticketVars, rangeVars, zipVars, verifyVars>>

\* hashContent on both texts.
HashBoth ==
    /\ pc = "edit"
    /\ digestA' = hashContent(Render(docA, 0))
    /\ digestB' = hashContent(Render(docB, styleB))
    /\ pc' = "hashed"
    /\ UNCHANGED <<docA, docB, styleB>>
    /\ UNCHANGED <<ticketVars, rangeVars, zipVars, verifyVars>>

HashNext == SwapMembers \/ SwapNestedMembers \/ Restyle \/ HashBoth

SpecHash == HashInit /\ [][HashNext]_vars

\* C10: two texts of one JSON value that differ only in the order of object
\* members and in insignificant whitespace are both hashed, to the same digest.
HashOrderIndependent ==
    pc = "hashed" => digestA.ok /\ digestB.ok /\ digestA.digest = digestB.digest

\* C10 witness: hashed texts that differ in member order and in whitespace.
HashOrderWitness ==
    /\ pc = "hashed"
    /\ docB # docA
    /\ styleB # 0
    /\ Render(docB, styleB) # Render(docA, 0)
    /\ digestA.ok

(***************************************************************************)
(* SpecTicket: validateTicket on raw tickets.                              *)
(***************************************************************************)
TypeValues  == {Str(ARWEAVE), Str(<<"x">>), Undefined}
OwnerValues == {Undefined, Null, Str(<<>>), Num(5), Str(<<"O">>)}
NamespaceValues == {Undefined, Str(<<>>), Num(0), Str(<<"n", "s">>)}
DateValues ==
    { Undefined, Num(20260101), Str(<<>>),
      Str(<<"2", "0", "2", "6", "-", "0", "1", "-", "0", "1">>), Str(<<"2", "0", "2", "6", "-", "0", "1", "-", "0", "3">>), Str(<<"2", "0", "2", "7", "-", "1", "2", "-", "3", "1">>), Str(<<"2", "0", "2", "6", "-", "0", "2", "-", "3", "0">>),
      Str(<<"2", "0", "2", "6", "-", "1", "-", "0", "1">>), Str(<<"2", "0", "2", "6", "/", "0", "1", "/", "0", "1">>), Str(<<"2", "0", "2", "6", "-", "0", "1", "-", "0", "1", "T">>), Str(<<"x", "0", "2", "6", "-", "0", "1", "-", "0", "1">>) }

RawTickets ==
    [type : TypeValues, owner : OwnerValues, namespace : NamespaceValues,
     date_start : DateValues, date_end : DateValues]

TicketInit ==
    /\ pc = "raw"
    /\ json \in RawTickets
    /\ validated = <<>>
    /\ HashIdle /\ RangeIdle /\ ZipIdle /\ VerifyIdle

ValidateTicket ==
    /\ pc = "raw"
    /\ validated' = validateTicket(json)
    /\ pc' = "validated"
    /\ UNCHANGED <<json, hashVars, rangeVars, zipVars, verifyVars>>

TicketNext == ValidateTicket

SpecTicket == TicketInit /\ [][TicketNext]_vars

InvalidTicketErrors ==
    { "Invalid ticket: type must be 'arweave'",
      "Invalid ticket: missing or invalid 'owner' address",
      "Invalid ticket: missing or invalid 'namespace'",
      "Invalid ticket: missing or invalid 'date_start'",
      "Invalid ticket: missing or invalid 'date_end'",
      "Invalid ticket: date_start must be YYYY-MM-DD format",
      "Invalid ticket: date_end must be YYYY-MM-DD format",
      "Invalid ticket: date_start must be before date_end" }

\* A non-empty string
GoodString(v) == v.t = "string" /\ Len(v.s) > 0

\* A string of the form YYYY-MM-DD
GoodDate(v) ==
    /\ v.t = "string"
    /\ Len(v.s) = 10
    /\ \A i \in 1..10 : IF i \in {5, 8} THEN v.s[i] = "-" ELSE v.s[i] \in Digits

\* The tickets the claim says are refused.
TicketRefused(j) ==
    \/ j.type # Str(ARWEAVE)
    \/ ~GoodString(j.owner) \/ ~GoodString(j.namespace)
    \/ ~GoodDate(j.date_start) \/ ~GoodDate(j.date_end)
    \/ (j.date_start # j.date_end /\ ~StrLess(j.date_start.s, j.date_end.s))

\* C6: validateTicket fails with an invalid-ticket error exactly on the tickets
\* whose type is not "arweave", whose owner or namespace is missing, empty or no
\* string, whose date_start or date_end is missing or not YYYY-MM-DD, or whose
\* date_start is greater than date_end; on every other ticket it returns the
\* input's owner, namespace, date_start and date_end.
TicketValidation ==
    pc = "validated" =>
        /\ validated.ok <=> ~TicketRefused(json)
        /\ ~validated.ok => validated.error \in InvalidTicketErrors
        /\ validated.ok =>
              /\ validated.ticket.owner = json.owner.s
              /\ validated.ticket.namespace = json.namespace.s
              /\ validated.ticket.date_start = json.date_start.s
              /\ validated.ticket.date_end = json.date_end.s

\* C6 witness: a ticket with date_start = date_end is accepted.
TicketEmptyRangeAccepted ==
    /\ pc = "validated"
    /\ validated.ok
    /\ json.date_start = json.date_end

\* A ticket is refused for its date order alone.
TicketOrderRefused ==
    /\ pc = "validated"
    /\ validated.error = "Invalid ticket: date_start must be before date_end"

(***************************************************************************)
(* SpecDates: generateDateRange, one step of its loop at a time.           *)
(***************************************************************************)
MaxSpan == 4

DatePool ==
    { <<"2", "0", "2", "4", "-", "0", "2", "-", "2", "7">>,
      <<"2", "0", "2", "4", "-", "0", "2", "-", "2", "8">>,
      <<"2", "0", "2", "4", "-", "0", "2", "-", "2", "9">>,
      <<"2", "0", "2", "4", "-", "0", "3", "-", "0", "1">>,
      <<"2", "0", "2", "4", "-", "0", "3", "-", "0", "2">>,
      <<"2", "0", "2", "4", "-", "0", "3", "-", "0", "4">>,
      <<"2", "0", "2", "6", "-", "0", "1", "-", "0", "1">>,
      <<"2", "0", "2", "6", "-", "0", "1", "-", "0", "2">>,
      <<"2", "0", "2", "6", "-", "0", "1", "-", "0", "3">>,
      <<"2", "0", "2", "6", "-", "1", "2", "-", "3", "0">>,
      <<"2", "0", "2", "6", "-", "1", "2", "-", "3", "1">>,
      <<"2", "0", "2", "7", "-", "0", "1", "-", "0", "1">>,
      <<"2", "0", "2", "7", "-", "0", "1", "-", "0", "2">>,
      <<"1", "9", "0", "0", "-", "0", "2", "-", "2", "7">>,
      <<"1", "9", "0", "0", "-", "0", "2", "-", "2", "8">>,
      <<"1", "9", "0", "0", "-", "0", "3", "-", "0", "1">>,
      <<"1", "9", "6", "9", "-", "1", "2", "-", "3", "1">>,
      <<"1", "9", "7", "0", "-", "0", "1", "-", "0", "1">>,
      <<"1", "9", "7", "0", "-", "0", "1", "-", "0", "2">>,
      <<"0", "0", "0", "0", "-", "0", "2", "-", "2", "8">>,
      <<"0", "0", "0", "0", "-", "0", "2", "-", "2", "9">>,
      <<"0", "0", "0", "0", "-", "0", "3", "-", "0", "1">>,
      <<"9", "9", "9", "9", "-", "1", "2", "-", "3", "0">>,
      <<"9", "9", "9", "9", "-", "1", "2", "-", "3", "1">> }

\* The calendar, as the claims speak of it: [year, month, date] of a date
\* string, the month lengths and the day after.
Civil(s) == [year |-> ToNat(SubSeq(s, 1, 4)), month |-> ToNat(SubSeq(s, 6, 7)),
             date |-> ToNat(SubSeq(s, 9, 10))]

LeapYear(y) == (y % 4 = 0 /\ y % 100 # 0) \/ y % 400 = 0

MonthLength(y, m) ==
    IF m = 2 THEN (IF LeapYear(y) THEN 29 ELSE 28)
    ELSE IF m \in {4, 6, 9, 11} THEN 30 ELSE 31

CalendarDate(c) == c.month \in 1..12 /\ c.date \in 1..MonthLength(c.year, c.month)

DayAfter(c) ==
    IF c.date < MonthLength(c.year, c.month) THEN [c EXCEPT !.date = c.date + 1]
    ELSE IF c.month < 12 THEN [c EXCEPT !.month = c.month + 1, !.date = 1]
    ELSE [year |-> c.year + 1, month |-> 1, date |-> 1]

RECURSIVE WithinDays(_, _, _)
\* b is a or one of the n days after a
WithinDays(a, b, n) == a = b \/ (n > 0 /\ WithinDays(DayAfter(a), b, n - 1))

RangeInit ==
    /\ pc = "call"
    /\ startDate \in DatePool
    /\ endDate \in DatePool
    /\ WithinDays(Civil(startDate), Civil(endDate), MaxSpan)
    /\ current = NaN
    /\ dates = <<>>
    /\ HashIdle /\ TicketIdle /\ ZipIdle /\ VerifyIdle

\* const current = new Date(start)
RangeEnter ==
    /\ pc = "call"
    /\ current' = DateParse(startDate)
    /\ pc' = "loop"
    /\ UNCHANGED <<startDate, endDate, dates, hashVars, ticketVars, zipVars, verifyVars>>

\* one pass of the loop body
RangeStep ==
    /\ pc = "loop"
    /\ LoopContinues(current, DateParse(endDate))
    /\ dates' = Append(dates, IsoDate(current))
    /\ current' = NextUTCDate(current)
    /\ UNCHANGED <<pc, startDate, endDate, hashVars, ticketVars, zipVars, verifyVars>>

\* return dates
RangeReturn ==
    /\ pc = "loop"
    /\ ~LoopContinues(current, DateParse(endDate))
    /\ pc' = "done"
    /\ UNCHANGED <<rangeVars, hashVars, ticketVars, zipVars, verifyVars>>

RangeNext == RangeEnter \/ RangeStep \/ RangeReturn

SpecDates == RangeInit /\ [][RangeNext]_vars

\* C7: for calendar dates start <= end, generateDateRange returns the dates
\* from start to end, both included, each the day after the one before it.
DateRangeInclusive ==
    pc = "done" =>
        /\ Len(dates) >= 1
        /\ dates[1] = startDate
        /\ dates[Len(dates)] = endDate
        /\ \A i \in 1..(Len(dates) - 1) :
              /\ dateRegex(dates[i + 1])
              /\ Civil(dates[i + 1]) = DayAfter(Civil(dates[i]))

\* The loop taken step by step returns what generateDateRange, as verify() calls
\* it, returns.
DateRangeStepsAgree ==
    pc = "done" => dates = generateDateRange(startDate, endDate)

\* C7 witness: a range of several days across a month's end has been returned.
DateRangeWitness ==
    /\ pc = "done"
    /\ Len(dates) >= 3
    /\ Civil(startDate).month # Civil(endDate).month

\* A range of one day (start = end) has been returned.
DateRangeSingle == pc = "done" /\ startDate = endDate /\ Len(dates) = 1

(***************************************************************************)
(* SpecZip: processZipAndHash on archives.                                 *)
(***************************************************************************)
MaxEntries == 3

TextAB  == <<"{", "\"a\"", ":", "1", ",", "\"b\"", ":", "2", "}">>
TextBA  == <<"{", " ", "\"b\"", ":", " ", "2", ",", "\n", "\"a\"", ":", "1.0", "}", "\n">>
TextKV  == <<"{", "\"k\"", ":", "\"v\"", "}">>
TextBad == <<"{", "\"a\"", ":">>

File(path, content) == [path |-> path, dir |-> FALSE, content |-> content]
Folder(path) == [path |-> path, dir |-> TRUE, content |-> <<>>]

FileJan01   == File(<<"l", "o", "g", "s", "/", "2", "0", "2", "6", "/", "0", "1", "/", "0", "1", "/", "a", ".", "j", "s", "o", "n">>, TextAB)
FileJan02   == File(<<"l", "o", "g", "s", "/", "2", "0", "2", "6", "/", "0", "1", "/", "0", "2", "/", "b", ".", "j", "s", "o", "n">>, TextBA)
FileJan03   == File(<<"l", "o", "g", "s", "/", "2", "0", "2", "6", "/", "0", "1", "/", "0", "3", "/", "c", ".", "j", "s", "o", "n">>, TextKV)
FileNoDate  == File(<<"f", "o", "o", "/", "b", "a", "r", ".", "j", "s", "o", "n">>, TextKV)
FolderJan02 == Folder(<<"l", "o", "g", "s", "/", "2", "0", "2", "6", "/", "0", "1", "/", "0", "2", "/">>)
FileBadJson == File(<<"l", "o", "g", "s", "/", "2", "0", "2", "6", "/", "0", "1", "/", "0", "2", "/", "x", ".", "j", "s", "o", "n">>, TextBad)
FileDay45   == File(<<"2", "0", "2", "6", "/", "0", "1", "/", "4", "5", "/", "a", ".", "j", "s", "o", "n">>, TextKV)
FileGlued   == File(<<"a", "2", "0", "2", "6", "/", "0", "1", "/", "0", "1", "/", "b", ".", "j", "s", "o", "n">>, TextKV)
FileNotJson == File(<<"l", "o", "g", "s", "/", "2", "0", "2", "6", "/", "0", "1", "/", "0", "2", "/", "a", ".", "j", "s", "o", "n", "l">>, TextKV)

EntryPool == {FileJan01, FileJan02, FileJan03, FileNoDate, FolderJan02,
              FileBadJson, FileDay45, FileGlued, FileNotJson}

Jan01 == <<"2", "0", "2", "6", "-", "0", "1", "-", "0", "1">>
Jan02 == <<"2", "0", "2", "6", "-", "0", "1", "-", "0", "2">>
Jan03 == <<"2", "0", "2", "6", "-", "0", "1", "-", "0", "3">>

Windows == {<<Jan01, Jan01>>, <<Jan01, Jan02>>, <<Jan02, Jan03>>}

\* The sequences of up to n distinct elements of S
RECURSIVE Arrangements(_, _)
Arrangements(S, n) ==
    IF n = 0 THEN {<<>>}
    ELSE LET shorter == Arrangements(S, n - 1)
             longest == {a \in shorter : Len(a) = n - 1}
         IN  shorter \cup
             UNION { {Append(a, x) : x \in S \ {a[i] : i \in 1..Len(a)}} : a \in longest }

ZipInit ==
    /\ pc = "zip"
    /\ zipFiles \in Arrangements(EntryPool, MaxEntries)
    /\ \E w \in Windows : dateStart = w[1] /\ dateEnd = w[2]
    /\ scanned = <<>>
    /\ HashIdle /\ TicketIdle /\ RangeIdle /\ VerifyIdle

ProcessZip ==
    /\ pc = "zip"
    /\ scanned' = processZipAndHash(zipFiles, dateStart, dateEnd)
    /\ pc' = "scanned"
    /\ UNCHANGED <<zipFiles, dateStart, dateEnd, hashVars, ticketVars, rangeVars,
                   verifyVars>>

ZipNext == ProcessZip

SpecZip == ZipInit /\ [][ZipNext]_vars

\* The paths of the layout YYYY/MM/DD/<name>.json, as the claims speak of it:
\* after the first k characters come the date segments, a name without "/"
\* and ".json".
LayoutAt(p, k) ==
    /\ Len(p) - k >= 17
    /\ \A i \in {1, 2, 3, 4, 6, 7, 9, 10} : p[k + i] \in Digits
    /\ p[k + 5] = "/" /\ p[k + 8] = "/" /\ p[k + 11] = "/"
    /\ \A i \in (k + 12)..Len(p) : p[i] # "/"
    /\ SubSeq(p, Len(p) - 4, Len(p)) = <<".", "j", "s", "o", "n">>

LayoutPath(p) == \E k \in 0..Len(p) : LayoutAt(p, k)

LayoutDate(p) ==
    LET k == CHOOSE k \in 0..Len(p) : LayoutAt(p, k) IN
    SubSeq(p, k + 1, k + 4) \o <<"-">> \o SubSeq(p, k + 6, k + 7) \o <<"-">>
        \o SubSeq(p, k + 9, k + 10)

\* The entries (by index) that match the layout, and those of them in the window
MatchingEntries(files) == {i \in 1..Len(files) : LayoutPath(files[i].path)}

EntriesInRange(files, from, to) ==
    {i \in MatchingEntries(files) :
        StrLeq(from, LayoutDate(files[i].path)) /\ StrLeq(LayoutDate(files[i].path), to)}

\* the j-th smallest element of a set of numbers
Nth(S, j) == CHOOSE i \in S : Cardinality({x \in S : x <= i}) = j

\* C8 (as amended): the scan fails with the no-matching-entries error exactly
\* when no entry matches the layout, with the no-entries-in-range error exactly
\* when some entry matches and none of the matching entries is dated within
\* [dateStart, dateEnd]; otherwise, when the content of every matching entry in
\* range is a JSON text, it yields one hash per such entry in entry order, and
\* when one of them is no JSON text it fails with the parse error.
ScanOutcome ==
    pc = "scanned" =>
        LET M == MatchingEntries(zipFiles)
            R == EntriesInRange(zipFiles, dateStart, dateEnd)
            AllJson == \A i \in R : JsonParse(zipFiles[i].content).ok
        IN  /\ (scanned.error = "No log files found in ZIP") <=> (M = {})
            /\ (scanned.error = "No log files found within date range")
                   <=> (M # {} /\ R = {})
            /\ (scanned.error = "SyntaxError") <=> (R # {} /\ ~AllJson)
            /\ scanned.ok <=> (R # {} /\ AllJson)
            /\ scanned.ok =>
                  /\ Len(scanned.hashes) = Cardinality(R)
                  /\ \A j \in 1..Cardinality(R) :
                        scanned.hashes[j] = hashContent(zipFiles[Nth(R, j)].content).digest

\* C8 witness: hashes were returned for an archive that also holds an entry off
\* the layout and a matching entry outside the window.
ScanWitness ==
    /\ pc = "scanned"
    /\ scanned.ok
    /\ Len(scanned.hashes) >= 1
    /\ \E i \in 1..Len(zipFiles) : i \notin MatchingEntries(zipFiles)
    /\ MatchingEntries(zipFiles) # EntriesInRange(zipFiles, dateStart, dateEnd)

\* C8 as claimed: whenever some matching entry is in range, the scan yields one
\* hash per matching entry in range.
ScanAlwaysYields ==
    pc = "scanned" =>
        LET R == EntriesInRange(zipFiles, dateStart, dateEnd) IN
        R # {} => scanned.ok /\ Len(scanned.hashes) = Cardinality(R)

(***************************************************************************)
(* Spec: verify(ticket, zipBuffer) against a ledger service that answers   *)
(* each request as it likes.                                               *)
(***************************************************************************)
MaxPages == 3
MaxRecords == 3

HashAB    == hashContent(TextAB).digest
HashKV    == hashContent(TextKV).digest
HashOther == Sha256Hex(<<"3">>)

Tag(name, value) == [name |-> name, value |-> value]
Edge(cur, id, height, tags) ==
    [cursor |-> Str(cur), node |-> [id |-> id, height |-> height, tags |-> tags]]

EdgePool ==
    { Edge(<<"c", "1">>, <<"t", "1">>, Num(990), <<Tag("Hash", HashAB)>>),
      Edge(<<"c", "2">>, <<"t", "2">>, Num(1010),
           <<Tag("Hash", HashOther), Tag("Session-ID", <<"s">>), Tag("Hash", HashAB)>>),
      Edge(<<>>, <<"t", "3">>, Undefined, <<Tag("Hash", HashOther)>>),
      Edge(<<"c", "4">>, <<"t", "4">>, Num(0), <<Tag("Session-ID", <<"s">>)>>) }

SeqsUpTo(S, n) == UNION {[1..k -> S] : k \in 0..n}

\* The pages a service may send when the client holds `have` records
Pages(have) ==
    [ok : {TRUE}, hasErrors : {FALSE}, messages : {<<>>},
     edges : SeqsUpTo(EdgePool, MaxRecords - have), hasNext : BOOLEAN]

HttpFailure == [ok |-> FALSE, hasErrors |-> FALSE, messages |-> <<>>,
                edges |-> <<>>, hasNext |-> FALSE]

GraphQLErrors ==
    [ok : {TRUE}, hasErrors : {TRUE}, messages : {<<>>, <<"first", "second">>},
     edges : {<<>>}, hasNext : {FALSE}]

\* What GET /info may answer: not ok, a height, no height
InfoResponses == {[ok |-> FALSE, height |-> Undefined],
                  [ok |-> TRUE, height |-> Num(1000)],
                  [ok |-> TRUE, height |-> Undefined]}

TicketFor(from, to) ==
    validateTicket([type |-> Str(ARWEAVE), owner |-> Str(<<"O">>),
                    namespace |-> Str(<<"n", "s">>),
                    date_start |-> Str(from), date_end |-> Str(to)]).ticket

Feb01 == <<"2", "0", "2", "6", "-", "0", "2", "-", "0", "1">>

TicketPool == {TicketFor(Jan01, Jan03), TicketFor(Jan01, Jan01), TicketFor(Jan03, Feb01)}

ArchivePool ==
    { <<FileJan01, FileJan02, FileJan03>>,
      <<FileJan03, FileNoDate, FileJan01>>,
      <<FileNoDate, FolderJan02>>,
      <<FileJan01, FileBadJson>>,
      <<FileJan03, FileDay45>> }

Init ==
    /\ pc = "scan"
    /\ ticket \in TicketPool
    /\ archive \in ArchivePool
    /\ localHashes = <<>> /\ queryDates = <<>>
    /\ cursor = Null /\ page = 1 /\ results = <<>>
    /\ requests = <<>> /\ responses = <<>>
    /\ currentHeight = 0 /\ arweaveTxs = <<>>
    /\ result = <<>> /\ error = <<>>
    /\ HashIdle /\ TicketIdle /\ RangeIdle /\ ZipIdle

others == <<hashVars, ticketVars, rangeVars, zipVars>>

\* processZipAndHash, then generateDateRange and the first lines of the query
ScanArchive ==
    /\ pc = "scan"
    /\ LET r == processZipAndHash(archive, ticket.date_start, ticket.date_end) IN
       IF r.ok
       THEN /\ localHashes' = r.hashes
            /\ queryDates' = generateDateRange(ticket.date_start, ticket.date_end)
            /\ pc' = "query"
            /\ error' = error
       ELSE /\ pc' = "failed"
            /\ error' = <<r.error, "">>
            /\ UNCHANGED <<localHashes, queryDates>>
    /\ UNCHANGED <<ticket, archive, cursor, page, results, requests, responses,
                   currentHeight, arweaveTxs, result, others>>

\* One pass of the loop of queryArweaveTransactions: the request, the answer,
\* and what the client does with it.
FetchPage ==
    /\ pc = "query"
    /\ page <= MaxPages
    /\ requests' = Append(requests, [after |-> AfterClause(cursor), first |-> 100,
                                     dates |-> queryDates])
    /\ \E resp \in Pages(Len(results)) \cup {HttpFailure} \cup GraphQLErrors :
          /\ responses' = Append(responses, resp)
          /\ IF ResponseThrows(resp)
             THEN /\ pc' = "failed"
                  /\ error' = ResponseError(resp)
                  /\ UNCHANGED <<cursor, page, results>>
             ELSE /\ results' = results \o DecodeAll(resp.edges)
                  /\ error' = error
                  /\ IF LoopBreaks(resp.hasNext, resp.edges)
                     THEN pc' = "height" /\ UNCHANGED <<cursor, page>>
                     ELSE /\ cursor' = resp.edges[Len(resp.edges)].cursor
                          /\ page' = page + 1
                          /\ pc' = pc
    /\ UNCHANGED <<ticket, archive, localHashes, queryDates, currentHeight,
                   arweaveTxs, result, others>>

\* getCurrentBlockHeight, the back-fill of confirmations and the reconciliation
FetchHeight ==
    /\ pc = "height"
    /\ \E info \in InfoResponses :
          IF ~info.ok
          THEN /\ pc' = "failed"
               /\ error' = <<"Failed to get Arweave network info", "statusText">>
               /\ UNCHANGED <<currentHeight, arweaveTxs, result>>
          ELSE LET height == IF Truthy(info.height) THEN info.height.n ELSE 0
                   txs    == BackFill(results, height)
               IN  /\ currentHeight' = height
                   /\ arweaveTxs' = txs
                   /\ result' = Reconcile(localHashes, txs)
                   /\ pc' = "done"
                   /\ error' = error
    /\ UNCHANGED <<ticket, archive, localHashes, queryDates, cursor, page, results,
                   requests, responses, others>>

Next == ScanArchive \/ FetchPage \/ FetchHeight

Spec == Init /\ [][Next]_vars

\* ---- the claims about verify() and the ledger client

Count(seq, x) == Cardinality({i \in 1..Len(seq) : seq[i] = x})

Hashes(txs) == [i \in 1..Len(txs) |-> txs[i].hash]

\* Some retrieved record has the hash
Notarized(h) == \E i \in 1..Len(arweaveTxs) : arweaveTxs[i].hash = h

NotNotarized(h) == ~Notarized(h)

\* C1: every local hash occurrence is in exactly one of verified and
\* unnotarized: in verified exactly when some retrieved record has its hash, so
\* that |verified| + |unnotarized| is the number of local hashes.
LocalPartition ==
    pc = "done" =>
        /\ Len(result.verified) + Len(result.unnotarized) = Len(localHashes)
        /\ Hashes(result.verified) = SelectSeq(localHashes, Notarized)
        /\ result.unnotarized = SelectSeq(localHashes, NotNotarized)
        /\ \A i \in 1..Len(result.verified) :
              \E j \in 1..Len(arweaveTxs) : arweaveTxs[j] = result.verified[i]

\* C1 witness: two local files of one hash that the ledger holds, and one local
\* hash it does not hold.
LocalPartitionWitness ==
    /\ pc = "done"
    /\ \E i, j \in 1..Len(localHashes) :
          i # j /\ localHashes[i] = localHashes[j] /\ Notarized(localHashes[i])
    /\ Len(result.verified) >= 2
    /\ Len(result.unnotarized) >= 1

\* C2: missing holds every retrieved record whose hash is no local hash, as
\* often as it was retrieved, and no record whose hash is a local hash.
MissingExact ==
    pc = "done" =>
        /\ \A i \in 1..Len(arweaveTxs) :
              LET tx == arweaveTxs[i] IN
              IF \E k \in 1..Len(localHashes) : localHashes[k] = tx.hash
              THEN Count(result.missing, tx) = 0
              ELSE Count(result.missing, tx) = Count(arweaveTxs, tx)
        /\ \A i \in 1..Len(result.missing) : Count(arweaveTxs, result.missing[i]) > 0

\* C2 witness: a record is missing while another one, whose hash two local
\* files share, is not.
MissingWitness ==
    /\ pc = "done"
    /\ Len(result.missing) >= 1
    /\ Len(result.missing) < Len(arweaveTxs)
    /\ Count(localHashes, HashAB) >= 2

\* A page that lets the loop go on, and one that ends it
PageContinues(resp) ==
    resp.ok /\ ~resp.hasErrors /\ resp.hasNext /\ Len(resp.edges) > 0

PageEnds(resp) ==
    resp.ok /\ ~resp.hasErrors /\ (~resp.hasNext \/ Len(resp.edges) = 0)

RECURSIVE AllEdges(_)
AllEdges(resps) ==
    IF resps = <<>> THEN <<>>
    ELSE AllEdges(SubSeq(resps, 1, Len(resps) - 1)) \o resps[Len(resps)].edges

QueryReturned == pc \in {"height", "done"}

\* C3 as claimed: when the service sent N non-empty pages, hasNextPage true on
\* all but the last, the client made N requests, the first without a cursor,
\* each later one with the cursor of the last edge of the page before, and
\* returns the records of all pages in page order.
PaginationExhaustive ==
    (/\ QueryReturned
     /\ Len(responses) >= 1
     /\ Len(responses[Len(responses)].edges) > 0
     /\ ~responses[Len(responses)].hasNext)
    => /\ Len(requests) = Len(responses)
       /\ requests[1].after = <<>>
       /\ \A k \in 2..Len(requests) :
             LET edges == responses[k - 1].edges IN
             requests[k].after = <<edges[Len(edges)].cursor.s>>
       /\ [i \in 1..Len(results) |-> results[i].txId]
             = [i \in 1..Len(AllEdges(responses)) |-> AllEdges(responses)[i].node.id]

\* The same with every cursor of the service a non-empty string: this holds.
PaginationWithCursors ==
    (\A k \in 1..Len(responses) : \A i \in 1..Len(responses[k].edges) :
        responses[k].edges[i].cursor.s # <<>>)
    => PaginationExhaustive

\* C4: the loop stops at the first page with hasNextPage false or no edges: no
\* request follows such a page, the query then returns the records gathered so
\* far and throws nothing.
PaginationStops ==
    /\ Len(requests) = Len(responses)
    /\ \A k \in 1..(Len(responses) - 1) : PageContinues(responses[k])
    /\ (Len(responses) >= 1 /\ PageEnds(responses[Len(responses)])) =>
          /\ pc \in {"height", "done", "failed"}
          /\ pc = "failed" => error[1] = "Failed to get Arweave network info"
          /\ results = DecodeAll(AllEdges(responses))

\* C4 witness: an empty page with hasNextPage true ended a query of several
\* pages, and verify() went on to return.
PaginationStopsWitness ==
    /\ pc = "done"
    /\ Len(responses) >= 2
    /\ responses[Len(responses)].edges = <<>>
    /\ responses[Len(responses)].hasNext
    /\ Len(arweaveTxs) >= 1

Max(a, b) == IF a >= b THEN a ELSE b

\* C5 as claimed: every retrieved record has confirmations
\* max(0, currentHeight - blockHeight) when it has a block height, 0 when not.
ConfirmationsClamped ==
    pc = "done" =>
        \A i \in 1..Len(arweaveTxs) :
            LET tx == arweaveTxs[i] IN
            tx.confirmations =
                IF tx.blockHeight = Null THEN 0
                ELSE Max(0, currentHeight - tx.blockHeight.n)

\* What the code gives instead: the difference as it is.
ConfirmationsDifference ==
    pc = "done" =>
        \A i \in 1..Len(arweaveTxs) :
            LET tx == arweaveTxs[i] IN
            tx.confirmations =
                IF tx.blockHeight = Null THEN 0 ELSE currentHeight - tx.blockHeight.n

PageFails(resp) == ~resp.ok \/ resp.hasErrors

\* C9: a failing answer (transport, or an application-level error) is the last
\* one: its request is not repeated, no page is requested after it, the query
\* ends with the matching error (the first reported message for an
\* application-level one), and verify() returns no result.
FailFast ==
    /\ \A k \in 1..Len(responses) :
          PageFails(responses[k]) =>
              /\ k = Len(responses)
              /\ Len(requests) = k
              /\ pc = "failed"
              /\ result = <<>>
              /\ ~responses[k].ok => error[1] = "Arweave query failed"
              /\ (responses[k].ok /\ Len(responses[k].messages) > 0) =>
                    error = <<"Arweave GraphQL error", responses[k].messages[1]>>
    /\ pc = "failed" => result = <<>>

\* C9 witness: the query failed on a later page with an application-level
\* error, after records had been gathered.
FailFastWitness ==
    /\ pc = "failed"
    /\ Len(responses) >= 2
    /\ Len(results) >= 1
    /\ responses[Len(responses)].hasErrors
    /\ Len(responses[Len(responses)].messages) > 0

\* The query failed at transport level on a later page.
FailFastTransport ==
    /\ pc = "failed"
    /\ Len(responses) >= 2
    /\ ~responses[Len(responses)].ok

\* The retrieved records (by index) that have the hash
Matching(h) == {i \in 1..Len(arweaveTxs) : arweaveTxs[i].hash = h}

\* C11 as claimed: for a local hash that several retrieved records share, the
\* record reported in verified is the first of them in retrieval order.
FirstMatchWins ==
    pc = "done" =>
        \A i \in 1..Len(result.verified) :
            LET at == Matching(result.verified[i].hash) IN
            result.verified[i] = arweaveTxs[CHOOSE k \in at : \A j \in at : k <= j]

\* What the code gives instead: the last of them in retrieval order (each
\* arweaveMap.set replaces the record set before), the same one for every local
\* occurrence of the hash.
LastMatchWins ==
    pc = "done" =>
        \A i \in 1..Len(result.verified) :
            LET at == Matching(result.verified[i].hash) IN
            result.verified[i] = arweaveTxs[CHOOSE k \in at : \A j \in at : j <= k]

\* The scan has returned the local hashes and the query dates are set
Scanned == pc \in {"query", "height", "done"}

\* C12 as claimed: every archive entry that contributes a local hash has a path
\* date that is one of the dates expanded from [date_start, date_end] and sent
\* to the ledger query.
SameDates ==
    Scanned =>
        \A i \in EntriesInRange(archive, ticket.date_start, ticket.date_end) :
            \E k \in 1..Len(queryDates) : queryDates[k] = LayoutDate(archive[i].path)

\* The same for the entries whose path date is a calendar date: this holds.
SameCalendarDates ==
    Scanned =>
        \A i \in EntriesInRange(archive, ticket.date_start, ticket.date_end) :
            CalendarDate(Civil(LayoutDate(archive[i].path))) =>
                \E k \in 1..Len(queryDates) : queryDates[k] = LayoutDate(archive[i].path)

====
